---- MODULE Spec2Model ----
(***************************************************************************)
(* Model of SyncClient (src/src/sync_client.ts): the multi-endpoint        *)
(* connection manager built on Dexie.Syncable.  The state is the manager's *)
(* fields (urls, options, statusChangeListeners), the promise chains       *)
(* started by connect(), the fire-and-forget reconnects started by the     *)
(* reachability callback, the callbacks registered with the connectivity   *)
(* oracle, and the calls each step makes on the collaborators.             *)
(***************************************************************************)
EXTENDS Integers, Sequences, FiniteSets, TLC

\* ---------------------------------------------------------------- bounds
MaxCalls == 2       \* connect() calls made by the application
MaxAuto == 2        \* pending reconnects per endpoint started by the oracle's callbacks

\* ------------------------------------------------------------ value sets
Urls == {"A", "B"}
Callbacks == {"cb1", "cb2"}
NoCallback == "undefined"

\* Options objects are records over the three keys the model distinguishes;
\* an absent key holds 0 / "absent".
AbsentOptions == [pollInterval |-> 0, credentials |-> "absent", tag |-> "absent"]
CallerOptions ==
    { AbsentOptions,
      [pollInterval |-> 500, credentials |-> "include", tag |-> "x"] }

defaultSyncOptions == [pollInterval |-> 10000, credentials |-> "omit"]

\* Variant of MergeOptions for Object.assign({}, defaultSyncOptions, options):
\* the caller's values win.
MergeOptionsCallerWins(o) ==
    [o EXCEPT !.pollInterval = IF @ = 0 THEN defaultSyncOptions.pollInterval ELSE @,
              !.credentials = IF @ = "absent" THEN defaultSyncOptions.credentials ELSE @]

\* Object.assign({}, options, defaultSyncOptions): the defaults are applied
\* last and override the caller's values for their keys.
MergeOptions(o) ==
    [o EXCEPT !.pollInterval = defaultSyncOptions.pollInterval,
              !.credentials = defaultSyncOptions.credentials]

\* Dexie.Syncable.StatusTexts[status]
StatusTexts(s) ==
    CASE s = -1 -> "ERROR"
      [] s = 0 -> "OFFLINE"
      [] s = 1 -> "CONNECTING"
      [] s = 2 -> "ONLINE"
      [] s = 3 -> "SYNCING"
      [] s = 4 -> "ERROR_WILL_RETRY"
EmittedStatuses == {-1, 2}

ConnectErrors == {"ConnectError"}
CleanupOutcomes == {"ok", "DisconnectError"}

VARIABLES
    urls,                   \* this.urls: array of tracked endpoints
    options,                \* this.options[url]
    statusChangeListeners,  \* this.statusChangeListeners[url]
    online,                 \* the oracle's current reachability per endpoint
    subs,                   \* callbacks registered with onlineStatusChanged
    tasks,                  \* promise chains of the connect() calls
    autoPending,            \* pending _connect() started by the callback
    live,                   \* a connect succeeded, no disconnect/removal since
    autoDisconnected,       \* tracked endpoint torn down by an unreachable notice
    tornDown,               \* strongest teardown the application called for an
                            \* endpoint since its last connect() call (recorded
                            \* under SpecTeardown only)
    lastOp                  \* the step just taken: the collaborator calls it
                            \* made and the status listeners it invoked

vars == <<urls, options, statusChangeListeners, online, subs, tasks,
          autoPending, live, autoDisconnected, tornDown, lastOp>>

\* ---------------------------------------------------------------- helpers
\* s.indexOf(url) !== -1
Has(s, url) == \E i \in 1..Len(s) : s[i] = url

Tracked(url) == Has(urls, url)

Occurrences(s, url) == Cardinality({i \in 1..Len(s) : s[i] = url})

\* Variant of FilterUrls with the test inverted: (u) => u === url.
FilterUrlsKeepingUrl(s, url) == SelectSeq(s, LAMBDA x : x = url)

\* this.urls.filter((u) => u !== url)
FilterUrls(s, url) == SelectSeq(s, LAMBDA x : x # url)

Pending(t) == tasks[t].pc \in {"isOnline", "connecting"}

\* The promise chain of connect() call t has called syncable.connect.
Attempted(t) ==
    \/ tasks[t].pc \in {"connecting", "resolved"}
    \/ tasks[t].pc = "rejected" /\ tasks[t].error # "Is not online"

\* isOnline(url): the status the oracle's promise resolves with.
IsOnline(url) == online[url]

\* The callbacks the oracle runs when the reachability of url changes: every
\* callback registered for url with onlineStatusChanged (none is ever
\* unregistered).
Notified(url) == subs[url]

\* A call made on a collaborator.
Call(fn, url, opts) == [fn |-> fn, url |-> url, opts |-> opts]
IsOnlineCall(url) == Call("isOnline", url, AbsentOptions)
SubscribeCall(url) == Call("onlineStatusChanged", url, AbsentOptions)
ConnectCall(url, opts) == Call("syncable.connect", url, opts)
DisconnectCall(url) == Call("syncable.disconnect", url, AbsentOptions)
DeleteCall(url) == Call("syncable.delete", url, AbsentOptions)

Repeat(n, c) == [i \in 1..n |-> c]

Count(calls, fn, url) ==
    Cardinality({i \in 1..Len(calls) : calls[i].fn = fn /\ calls[i].url = url})

Op(name, url, t, calls) ==
    [op |-> name, url |-> url, task |-> t, calls |-> calls, invoked |-> << >>,
     event |-> << >>]

Init ==
    /\ urls = << >>
    /\ options = [u \in Urls |-> AbsentOptions]
    /\ statusChangeListeners = [u \in Urls |-> NoCallback]
    /\ online \in [Urls -> BOOLEAN]
    /\ subs = [u \in Urls |-> 0]
    /\ tasks = << >>
    /\ autoPending = [u \in Urls |-> 0]
    /\ live = [u \in Urls |-> FALSE]
    /\ autoDisconnected = [u \in Urls |-> FALSE]
    /\ tornDown = [u \in Urls |-> "none"]
    /\ lastOp = Op("new", "A", 0, << >>)

\* ------------------------------------------------------------- operations

\* Variant of Connect that stores the merged options before the membership
\* test.
ConnectStoringOptionsFirst(url, opts) ==
    /\ Len(tasks) < MaxCalls
    /\ options' = [options EXCEPT ![url] = MergeOptions(opts)]
    /\ IF ~Tracked(url)
         THEN /\ tasks' = Append(tasks,
                     [url |-> url, pc |-> "isOnline", error |-> "none",
                      during |-> {t \in 1..Len(tasks) :
                                     tasks[t].url = url /\ Pending(t)}])
              /\ lastOp' = Op("connect", url, Len(tasks) + 1, <<IsOnlineCall(url)>>)
         ELSE /\ tasks' = Append(tasks,
                     [url |-> url, pc |-> "noop", error |-> "none",
                      during |-> {}])
              /\ lastOp' = Op("connect", url, Len(tasks) + 1, << >>)
    /\ UNCHANGED <<urls, statusChangeListeners, online, subs, autoPending,
                   live, autoDisconnected>>

\* connect(url, options): the synchronous part of the call.
Connect(url, opts) ==
    /\ Len(tasks) < MaxCalls
    /\ IF ~Tracked(url)
         THEN /\ options' = [options EXCEPT ![url] = MergeOptions(opts)]
              /\ tasks' = Append(tasks,
                     [url |-> url, pc |-> "isOnline", error |-> "none",
                      during |-> {t \in 1..Len(tasks) :
                                     tasks[t].url = url /\ Pending(t)}])
              /\ lastOp' = Op("connect", url, Len(tasks) + 1, <<IsOnlineCall(url)>>)
         ELSE /\ tasks' = Append(tasks,
                     [url |-> url, pc |-> "noop", error |-> "none",
                      during |-> {}])
              /\ lastOp' = Op("connect", url, Len(tasks) + 1, << >>)
              /\ UNCHANGED options
    /\ UNCHANGED <<urls, statusChangeListeners, online, subs, autoPending, live, autoDisconnected>>

\* Variant of IsOnlineResolved that does not test status before connecting.
IsOnlineResolvedIgnoringStatus(t) ==
    /\ t \in 1..Len(tasks)
    /\ tasks[t].pc = "isOnline"
    /\ tasks' = [tasks EXCEPT ![t].pc = "connecting"]
    /\ lastOp' = Op("isOnline", tasks[t].url, t,
                    <<ConnectCall(tasks[t].url, options[tasks[t].url])>>)
    /\ UNCHANGED <<urls, options, statusChangeListeners, online, subs,
                   autoPending, live, autoDisconnected>>

\* isOnline(url) resolved with status: the .then callback of connect().
IsOnlineResolved(t) ==
    /\ t \in 1..Len(tasks)
    /\ tasks[t].pc = "isOnline"
    /\ LET url == tasks[t].url IN
       IF IsOnline(url)
         THEN /\ tasks' = [tasks EXCEPT ![t].pc = "connecting"]
              /\ lastOp' = Op("isOnline", url, t, <<ConnectCall(url, options[url])>>)
         ELSE /\ tasks' = [tasks EXCEPT ![t].pc = "rejected",
                                        ![t].error = "Is not online"]
              /\ lastOp' = Op("isOnline", url, t, << >>)
    /\ UNCHANGED <<urls, options, statusChangeListeners, online, subs,
                   autoPending, live, autoDisconnected>>

\* syncable.connect resolved for a connect() call: push and subscribe.
Connected(t) ==
    /\ t \in 1..Len(tasks)
    /\ tasks[t].pc = "connecting"
    /\ LET url == tasks[t].url IN
       /\ urls' = Append(urls, url)
       /\ subs' = [subs EXCEPT ![url] = @ + 1]
       /\ live' = [live EXCEPT ![url] = TRUE]
       /\ lastOp' = Op("connected", url, t, <<SubscribeCall(url)>>)
    /\ tasks' = [tasks EXCEPT ![t].pc = "resolved"]
    /\ UNCHANGED <<options, statusChangeListeners, online, autoPending, autoDisconnected>>

\* Variant of CatchResult for `return this.disconnect(url).then(() => { throw e; })`:
\* a failing cleanup replaces the original error.
CatchResultAwaitingCleanup(e, cleanup) == IF cleanup = "ok" THEN e ELSE cleanup

\* What the promise returned by _connect rejects with, given the error e of
\* syncable.connect and the outcome of the cleanup disconnect:
\* `this.disconnect(url); throw e;`
CatchResult(e, cleanup) == e

\* syncable.connect rejected for a connect() call: the .catch of _connect.
ConnectFailed(t) ==
    /\ t \in 1..Len(tasks)
    /\ tasks[t].pc = "connecting"
    /\ LET url == tasks[t].url IN
       /\ urls' = FilterUrls(urls, url)
       /\ live' = [live EXCEPT ![url] = FALSE]
       /\ lastOp' = Op("connectFailed", url, t, <<DisconnectCall(url)>>)
    /\ \E e \in ConnectErrors, cleanup \in CleanupOutcomes :
          tasks' = [tasks EXCEPT ![t].pc = "rejected",
                                 ![t].error = CatchResult(e, cleanup)]
    /\ UNCHANGED <<options, statusChangeListeners, online, subs, autoPending, autoDisconnected>>

\* A _connect started by the reachability callback resolved: nothing is
\* chained on it.
AutoConnected(url) ==
    /\ autoPending[url] > 0
    /\ autoPending' = [autoPending EXCEPT ![url] = @ - 1]
    /\ live' = [live EXCEPT ![url] = TRUE]
    /\ lastOp' = Op("autoConnected", url, 0, << >>)
    /\ UNCHANGED <<urls, options, statusChangeListeners, online, subs, tasks, autoDisconnected>>

\* A _connect started by the reachability callback rejected: its .catch.
AutoFailed(url) ==
    /\ autoPending[url] > 0
    /\ autoPending' = [autoPending EXCEPT ![url] = @ - 1]
    /\ urls' = FilterUrls(urls, url)
    /\ live' = [live EXCEPT ![url] = FALSE]
    /\ lastOp' = Op("autoFailed", url, 0, <<DisconnectCall(url)>>)
    /\ UNCHANGED <<options, statusChangeListeners, online, subs, tasks, autoDisconnected>>

\* Variant of Disconnect that also clears the status listener, as removeUrl
\* does.
DisconnectClearingListener(url) ==
    /\ urls' = FilterUrls(urls, url)
    /\ statusChangeListeners' = [statusChangeListeners EXCEPT ![url] = NoCallback]
    /\ live' = [live EXCEPT ![url] = FALSE]
    /\ lastOp' = Op("disconnect", url, 0, <<DisconnectCall(url)>>)
    /\ UNCHANGED <<options, online, subs, tasks, autoPending, autoDisconnected>>

\* disconnect(url), called by the application.
Disconnect(url) ==
    /\ urls' = FilterUrls(urls, url)
    /\ live' = [live EXCEPT ![url] = FALSE]
    /\ lastOp' = Op("disconnect", url, 0, <<DisconnectCall(url)>>)
    /\ UNCHANGED <<options, statusChangeListeners, online, subs, tasks,
                   autoPending, autoDisconnected>>

\* Variant of RemoveUrl that leaves the status listener registered.
RemoveUrlKeepingListener(url) ==
    /\ urls' = FilterUrls(urls, url)
    /\ live' = [live EXCEPT ![url] = FALSE]
    /\ lastOp' = Op("removeUrl", url, 0, <<DeleteCall(url)>>)
    /\ UNCHANGED <<options, statusChangeListeners, online, subs, tasks,
                   autoPending, autoDisconnected>>

\* removeUrl(url)
RemoveUrl(url) ==
    /\ urls' = FilterUrls(urls, url)
    /\ statusChangeListeners' = [statusChangeListeners EXCEPT ![url] = NoCallback]
    /\ live' = [live EXCEPT ![url] = FALSE]
    /\ lastOp' = Op("removeUrl", url, 0, <<DeleteCall(url)>>)
    /\ UNCHANGED <<options, online, subs, tasks, autoPending,
                   autoDisconnected>>

\* statusChange(url, cb)
StatusChange(url, cb) ==
    /\ statusChangeListeners[url] # cb
    /\ statusChangeListeners' = [statusChangeListeners EXCEPT ![url] = cb]
    /\ lastOp' = Op("statusChange", url, 0, << >>)
    /\ UNCHANGED <<urls, options, online, subs, tasks, autoPending,
                   live, autoDisconnected>>

\* Variant of StatusChanged that ignores url and calls every registered
\* listener.
StatusChangedBroadcast(status, url) ==
    /\ lastOp' = [Op("statusChanged", url, 0, << >>) EXCEPT
                     !.event = <<status>>,
                     !.invoked =
                        LET registered ==
                                {u \in Urls : statusChangeListeners[u] # NoCallback}
                            order == CHOOSE q \in [1..Cardinality(registered) -> registered] :
                                        \A i, j \in DOMAIN q : i # j => q[i] # q[j]
                        IN [i \in DOMAIN order |->
                                [cb |-> statusChangeListeners[order[i]],
                                 text |-> StatusTexts(status)]]]
    /\ UNCHANGED <<urls, options, statusChangeListeners, online, subs, tasks,
                   autoPending, live, autoDisconnected>>

\* The 'statusChanged' handler installed by the constructor.
StatusChanged(status, url) ==
    /\ LET cb == statusChangeListeners[url] IN
       lastOp' = [Op("statusChanged", url, 0, << >>) EXCEPT
                     !.event = <<status>>,
                     !.invoked =
                        IF cb # NoCallback
                          THEN <<[cb |-> cb, text |-> StatusTexts(status)]>>
                          ELSE << >>]
    /\ UNCHANGED <<urls, options, statusChangeListeners, online, subs, tasks,
                   autoPending, live, autoDisconnected>>

\* Variant of OnlineStatusChanged whose callback calls
\* this.syncable.disconnect(url) itself on an unreachable notice and leaves
\* this.urls alone.
OnlineStatusChangedKeepingUrl(url) ==
    /\ ~online[url] => autoPending[url] + Notified(url) <= MaxAuto
    /\ online' = [online EXCEPT ![url] = ~online[url]]
    /\ IF ~online[url]
         THEN /\ autoPending' = [autoPending EXCEPT ![url] = @ + Notified(url)]
              /\ autoDisconnected' = [autoDisconnected EXCEPT ![url] = FALSE]
              /\ lastOp' = Op("online", url, 0,
                              Repeat(Notified(url), ConnectCall(url, options[url])))
              /\ UNCHANGED <<urls, live>>
         ELSE /\ autoDisconnected' =
                     [autoDisconnected EXCEPT ![url] = Notified(url) > 0 /\ Tracked(url)]
              /\ lastOp' = Op("offline", url, 0,
                              Repeat(Notified(url), DisconnectCall(url)))
              /\ UNCHANGED <<urls, live, autoPending>>
    /\ UNCHANGED <<options, statusChangeListeners, subs, tasks>>

\* The oracle reports a reachability change of url: every callback that was
\* registered for url with onlineStatusChanged runs with the new status.
OnlineStatusChanged(url) ==
    /\ ~online[url] => autoPending[url] + Notified(url) <= MaxAuto
    /\ online' = [online EXCEPT ![url] = ~online[url]]
    /\ IF ~online[url]
         THEN \* newStatus = true: this._connect(url, this.options[url])
              /\ autoPending' = [autoPending EXCEPT ![url] = @ + Notified(url)]
              /\ autoDisconnected' = [autoDisconnected EXCEPT ![url] = FALSE]
              /\ lastOp' = Op("online", url, 0,
                              Repeat(Notified(url), ConnectCall(url, options[url])))
              /\ UNCHANGED <<urls, live>>
         ELSE \* newStatus = false: this.disconnect(url)
              /\ urls' = IF Notified(url) > 0 THEN FilterUrls(urls, url) ELSE urls
              /\ live' = IF Notified(url) > 0 THEN [live EXCEPT ![url] = FALSE]
                                          ELSE live
              /\ autoDisconnected' =
                     [autoDisconnected EXCEPT ![url] = Notified(url) > 0 /\ Tracked(url)]
              /\ lastOp' = Op("offline", url, 0,
                              Repeat(Notified(url), DisconnectCall(url)))
              /\ UNCHANGED autoPending
    /\ UNCHANGED <<options, statusChangeListeners, subs, tasks>>

\* The step just taken is operation name on endpoint url.
Did(op, name, url) == op.op = name /\ op.url = url

\* The teardown record kept beside the lifecycle: connect(url) clears it,
\* removeUrl(url) sets it, disconnect(url) sets it unless a removeUrl is
\* already recorded.  Teardowns the manager runs itself are not recorded.
RecordTeardown ==
    tornDown' = [u \in Urls |->
        IF Did(lastOp', "connect", u) THEN "none"
        ELSE IF Did(lastOp', "removeUrl", u) THEN "removeUrl"
        ELSE IF Did(lastOp', "disconnect", u) /\ tornDown[u] = "none" THEN "disconnect"
        ELSE tornDown[u]]

\* Under every other specification the record stays as Init left it.
NoRecord == UNCHANGED tornDown

Next ==
    \/ \E url \in Urls, opts \in CallerOptions : Connect(url, opts) /\ NoRecord
    \/ \E t \in 1..MaxCalls : IsOnlineResolved(t) /\ NoRecord
    \/ \E t \in 1..MaxCalls : Connected(t) /\ NoRecord
    \/ \E t \in 1..MaxCalls : ConnectFailed(t) /\ NoRecord
    \/ \E url \in Urls : AutoConnected(url) /\ NoRecord
    \/ \E url \in Urls : AutoFailed(url) /\ NoRecord
    \/ \E url \in Urls : Disconnect(url) /\ NoRecord
    \/ \E url \in Urls : RemoveUrl(url) /\ NoRecord
    \/ \E url \in Urls, cb \in Callbacks : StatusChange(url, cb) /\ NoRecord
    \/ \E url \in Urls, status \in EmittedStatuses : StatusChanged(status, url) /\ NoRecord
    \/ \E url \in Urls : OnlineStatusChanged(url) /\ NoRecord

Spec == Init /\ [][Next]_vars

\* The connection lifecycle alone: no status listener is registered and no
\* status event is delivered (neither reads or writes the lifecycle state).
NextLifecycle ==
    \/ \E url \in Urls, opts \in CallerOptions : Connect(url, opts) /\ NoRecord
    \/ \E t \in 1..MaxCalls : IsOnlineResolved(t) /\ NoRecord
    \/ \E t \in 1..MaxCalls : Connected(t) /\ NoRecord
    \/ \E t \in 1..MaxCalls : ConnectFailed(t) /\ NoRecord
    \/ \E url \in Urls : AutoConnected(url) /\ NoRecord
    \/ \E url \in Urls : AutoFailed(url) /\ NoRecord
    \/ \E url \in Urls : Disconnect(url) /\ NoRecord
    \/ \E url \in Urls : RemoveUrl(url) /\ NoRecord
    \/ \E url \in Urls : OnlineStatusChanged(url) /\ NoRecord

SpecLifecycle == Init /\ [][NextLifecycle]_vars

\* The application's calls and the promise resolutions they wait for, with
\* the reachability of every endpoint held at its initial value.
NextCaller ==
    \/ \E url \in Urls, opts \in CallerOptions : Connect(url, opts) /\ NoRecord
    \/ \E t \in 1..MaxCalls : IsOnlineResolved(t) /\ NoRecord
    \/ \E t \in 1..MaxCalls : Connected(t) /\ NoRecord
    \/ \E t \in 1..MaxCalls : ConnectFailed(t) /\ NoRecord
    \/ \E url \in Urls : Disconnect(url) /\ NoRecord
    \/ \E url \in Urls : RemoveUrl(url) /\ NoRecord
    \/ \E url \in Urls, cb \in Callbacks : StatusChange(url, cb) /\ NoRecord
    \/ \E url \in Urls, status \in EmittedStatuses : StatusChanged(status, url) /\ NoRecord

SpecCaller == Init /\ [][NextCaller]_vars

\* The connection lifecycle with the application's teardown calls recorded.
NextTeardown ==
    \/ \E url \in Urls, opts \in CallerOptions : Connect(url, opts) /\ RecordTeardown
    \/ \E t \in 1..MaxCalls : IsOnlineResolved(t) /\ RecordTeardown
    \/ \E t \in 1..MaxCalls : Connected(t) /\ RecordTeardown
    \/ \E t \in 1..MaxCalls : ConnectFailed(t) /\ RecordTeardown
    \/ \E url \in Urls : AutoConnected(url) /\ RecordTeardown
    \/ \E url \in Urls : AutoFailed(url) /\ RecordTeardown
    \/ \E url \in Urls : Disconnect(url) /\ RecordTeardown
    \/ \E url \in Urls : RemoveUrl(url) /\ RecordTeardown
    \/ \E url \in Urls : OnlineStatusChanged(url) /\ RecordTeardown

SpecTeardown == Init /\ [][NextTeardown]_vars

\* Every step of the program, with one options object and one status value
\* as inputs, and a status listener registered for one of the endpoints.
TaggedOptions == CHOOSE opts \in CallerOptions : opts # AbsentOptions
NextFrame ==
    \/ \E url \in Urls : Connect(url, TaggedOptions) /\ NoRecord
    \/ \E t \in 1..MaxCalls : IsOnlineResolved(t) /\ NoRecord
    \/ \E t \in 1..MaxCalls : Connected(t) /\ NoRecord
    \/ \E t \in 1..MaxCalls : ConnectFailed(t) /\ NoRecord
    \/ \E url \in Urls : AutoConnected(url) /\ NoRecord
    \/ \E url \in Urls : AutoFailed(url) /\ NoRecord
    \/ \E url \in Urls : Disconnect(url) /\ NoRecord
    \/ \E url \in Urls : RemoveUrl(url) /\ NoRecord
    \/ \E url \in {"B"} : StatusChange(url, "cb1") /\ NoRecord
    \/ \E url \in Urls : StatusChanged(-1, url) /\ NoRecord
    \/ \E url \in Urls : OnlineStatusChanged(url) /\ NoRecord

SpecFrame == Init /\ [][NextFrame]_vars

\* ---------------------------------------------------------------- claims

\* The manager's own fields.
manager == <<urls, options, statusChangeListeners>>

\* C1: when connect(E) is called while an earlier connect(E) is still
\* pending, the two calls together make at most one syncable.connect call.
C1_OverlappingConnectsAttemptOnce ==
    \A t1, t2 \in 1..Len(tasks) :
        t1 \in tasks[t2].during => ~(Attempted(t1) /\ Attempted(t2))

\* C2: at most one reachability callback is ever registered with the oracle
\* for each endpoint.
C2_AtMostOneSubscription == \A url \in Urls : subs[url] <= 1

\* C3: for an endpoint that was tracked and then torn down by an unreachable
\* notification, the next reachable notification makes exactly one
\* syncable.connect call.
C3_OneReconnectPerTransition ==
    [][\A url \in Urls :
          (autoDisconnected[url] /\ Did(lastOp', "online", url))
              => Count(lastOp'.calls, "syncable.connect", url) = 1]_vars

\* C4: an endpoint is in the tracked set exactly when a syncable.connect for
\* it has succeeded (whether started by connect() or by a reachable
\* notification) and no disconnect or removeUrl of it has run since.
C4_TrackedIffConnected == \A url \in Urls : Tracked(url) <=> live[url]

\* C5: the tracked set holds each endpoint at most once.
C5_NoDuplicateUrls == \A url \in Urls : Occurrences(urls, url) <= 1

\* C6: when isOnline reports an endpoint unreachable to a pending connect(),
\* the call rejects with 'Is not online', makes no syncable.connect call,
\* adds nothing to the tracked set (an untracked endpoint stays untracked)
\* and registers no reachability callback.
C6_OfflineConnectRejects ==
    [][\A t \in 1..Len(tasks) :
          (tasks[t].pc = "isOnline" /\ lastOp'.op = "isOnline" /\ lastOp'.task = t
              /\ ~IsOnline(tasks[t].url))
            => /\ tasks'[t].pc = "rejected"
               /\ tasks'[t].error = "Is not online"
               /\ lastOp'.calls = << >>
               /\ urls' = urls
               /\ subs' = subs
               /\ autoPending' = autoPending]_vars

C6_Witness ==
    /\ lastOp.op = "isOnline"
    /\ tasks[lastOp.task].pc = "rejected"
    /\ tasks[lastOp.task].error = "Is not online"
    /\ ~Tracked(lastOp.url)
    /\ subs[lastOp.url] = 0

\* C7: when a syncable.connect fails, the endpoint is not in the tracked set
\* afterwards, exactly one cleanup syncable.disconnect is issued for it, and a
\* connect() call waiting for it rejects with the error of syncable.connect,
\* whatever the outcome of the cleanup.
C7_FailedConnectCleansUp ==
    [][/\ \A t \in 1..Len(tasks) :
             (tasks[t].pc = "connecting" /\ tasks'[t].pc = "rejected")
               => /\ ~Has(urls', tasks[t].url)
                  /\ lastOp'.calls = <<DisconnectCall(tasks[t].url)>>
                  /\ tasks'[t].error \in ConnectErrors
                  /\ subs' = subs
       /\ \A url \in Urls :
             (autoPending'[url] < autoPending[url] /\ lastOp'.op = "autoFailed")
               => /\ ~Has(urls', url)
                  /\ lastOp'.calls = <<DisconnectCall(url)>>]_vars

C7_Witness ==
    /\ lastOp.op = "connectFailed"
    /\ tasks[lastOp.task].pc = "rejected"
    /\ tasks[lastOp.task].error \in ConnectErrors
    /\ ~Tracked(lastOp.url)
    /\ subs[lastOp.url] > 0

\* C8: connect() on a tracked endpoint resolves at once and changes nothing:
\* no isOnline query, no syncable.connect, no new reachability callback, and
\* the stored options, the tracked set and the listener map are unchanged.
C8_ConnectTrackedIsNoop ==
    [][\A url \in Urls :
          (Tracked(url) /\ Did(lastOp', "connect", url))
            => /\ Len(tasks') = Len(tasks) + 1
               /\ tasks'[Len(tasks')].pc = "noop"
               /\ tasks'[Len(tasks')].error = "none"
               /\ lastOp'.calls = << >>
               /\ manager' = manager
               /\ subs' = subs
               /\ autoPending' = autoPending]_vars

C8_Witness ==
    /\ lastOp.op = "connect"
    /\ tasks[lastOp.task].pc = "noop"
    /\ Tracked(lastOp.url)
    /\ statusChangeListeners[lastOp.url] # NoCallback
    /\ options[lastOp.url].tag = "x"

\* C9: disconnect(E) leaves E out of the tracked set, issues one
\* syncable.disconnect for E, and leaves the status listeners, the
\* reachability callbacks, the stored options and the tracked membership of
\* every other endpoint as they were; on an untracked E the tracked set is
\* unchanged, and a second disconnect(E) right after the first changes
\* nothing.
C9_DisconnectFrame ==
    [][\A url \in Urls :
          Did(lastOp', "disconnect", url)
            => /\ ~Has(urls', url)
               /\ \A other \in Urls \ {url} :
                     Occurrences(urls', other) = Occurrences(urls, other)
               /\ lastOp'.calls = <<DisconnectCall(url)>>
               /\ statusChangeListeners' = statusChangeListeners
               /\ subs' = subs
               /\ options' = options
               /\ (~Tracked(url) => urls' = urls)
               /\ (Did(lastOp, "disconnect", url) => manager' = manager)]_vars

C9_Witness ==
    /\ lastOp.op = "disconnect"
    /\ ~Tracked(lastOp.url)
    /\ statusChangeListeners[lastOp.url] # NoCallback
    /\ subs[lastOp.url] > 0
    /\ \E other \in Urls \ {lastOp.url} : Tracked(other)

\* C10: removeUrl(E) leaves E out of the tracked set, requests one
\* syncable.delete for E and leaves no status listener for E; while no
\* listener is registered a status event for E invokes no callback, and only
\* statusChange(E, cb) registers one again; a second removeUrl(E) right after
\* the first changes nothing in the manager.
C10_RemoveUrlClearsListener ==
    [][\A url \in Urls :
          /\ Did(lastOp', "removeUrl", url)
               => /\ ~Has(urls', url)
                  /\ lastOp'.calls = <<DeleteCall(url)>>
                  /\ statusChangeListeners'[url] = NoCallback
                  /\ (Did(lastOp, "removeUrl", url) => manager' = manager)
          /\ (statusChangeListeners[url] = NoCallback
                 /\ Did(lastOp', "statusChanged", url))
               => lastOp'.invoked = << >>
          /\ (statusChangeListeners[url] = NoCallback
                 /\ statusChangeListeners'[url] # NoCallback)
               => Did(lastOp', "statusChange", url)]_vars

C10_Witness ==
    /\ lastOp.op = "removeUrl"
    /\ ~Tracked(lastOp.url)
    /\ statusChangeListeners[lastOp.url] = NoCallback
    /\ subs[lastOp.url] > 0
    /\ \E other \in Urls \ {lastOp.url} :
          statusChangeListeners[other] # NoCallback

\* C11: a connect(E) that follows removeUrl(E) starts from the state of an
\* endpoint never seen, so that every later operation and notification has
\* the effect it has in a manager where E is fresh: no reachability callback
\* is registered for E, no connect of E is pending, and E is untracked.
C11_ConnectAfterRemoveIsFresh ==
    [][\A url \in Urls :
          (tornDown[url] = "removeUrl" /\ Did(lastOp', "connect", url))
            => /\ subs[url] = 0
               /\ autoPending[url] = 0
               /\ ~Tracked(url)
               /\ \A t \in 1..Len(tasks) : tasks[t].url = url => ~Pending(t)]_vars

\* C12: a status event (status, E) invokes the callback registered for E,
\* once, with StatusTexts[status], and nothing when none is registered; no
\* other step invokes a callback; statusChange(E, cb) invokes nothing,
\* replaces the callback of E and leaves the callbacks of other endpoints.
C12_ListenerDelivery ==
    [][\A url \in Urls :
          /\ Did(lastOp', "statusChanged", url)
               => /\ Len(lastOp'.event) = 1
                  /\ lastOp'.invoked =
                        IF statusChangeListeners[url] = NoCallback
                          THEN << >>
                          ELSE <<[cb |-> statusChangeListeners[url],
                                  text |-> StatusTexts(lastOp'.event[1])]>>
                  /\ statusChangeListeners' = statusChangeListeners
          /\ lastOp'.op # "statusChanged" => lastOp'.invoked = << >>
          /\ Did(lastOp', "statusChange", url)
               => /\ statusChangeListeners'[url] \in Callbacks \ {statusChangeListeners[url]}
                  /\ \A other \in Urls \ {url} :
                        statusChangeListeners'[other] = statusChangeListeners[other]]_vars

C12_Witness ==
    /\ lastOp.op = "statusChanged"
    /\ lastOp.invoked = <<[cb |-> "cb2", text |-> "ERROR"]>>
    /\ \E other \in Urls \ {lastOp.url} : statusChangeListeners[other] = "cb1"

C14_NoOverlappingReconnects ==
    \A url \in Urls :
        /\ autoPending[url] <= 1
        /\ (Did(lastOp, "online", url) /\ lastOp.calls # << >>) => ~Tracked(url)

\* C15: an unreachable notification for a tracked endpoint removes it from
\* the tracked set and issues syncable.disconnect for it (and no other call)
\* in the same step, and the registered reachability callbacks stay.
C15_UnreachableDisconnects ==
    [][\A url \in Urls :
          (Tracked(url) /\ Did(lastOp', "offline", url))
            => /\ ~Has(urls', url)
               /\ Count(lastOp'.calls, "syncable.disconnect", url) >= 1
               /\ Count(lastOp'.calls, "syncable.disconnect", url) = Len(lastOp'.calls)
               /\ subs[url] >= 1
               /\ subs' = subs]_vars

C15_Witness ==
    /\ lastOp.op = "offline"
    /\ autoDisconnected[lastOp.url]
    /\ ~Tracked(lastOp.url)
    /\ lastOp.calls = <<DisconnectCall(lastOp.url)>>
    /\ subs[lastOp.url] = 1

\* C16: when the protocol layer reports an error (status ERROR) for a
\* tracked endpoint whose connect has resolved, the manager removes it from
\* the tracked set, issues syncable.disconnect for it and starts no connect.
C16_AsyncErrorDisconnects ==
    [][\A url \in Urls :
          (Tracked(url) /\ Did(lastOp', "statusChanged", url)
              /\ lastOp'.event = <<-1>>)
            => /\ ~Has(urls', url)
               /\ Count(lastOp'.calls, "syncable.disconnect", url) >= 1
               /\ Count(lastOp'.calls, "syncable.connect", url) = 0]_vars

\* C17: the options of an endpoint are constructed once: once stored they
\* never change, and every syncable.connect for the endpoint is passed them.
C17_OptionsConstructedOnce ==
    [][/\ \A url \in Urls :
             options[url] # AbsentOptions => options'[url] = options[url]
       /\ \A i \in 1..Len(lastOp'.calls) :
             lastOp'.calls[i].fn = "syncable.connect"
               => lastOp'.calls[i].opts = options'[lastOp'.calls[i].url]]_vars

\* C18: a step concerning endpoint A leaves the tracked membership, stored
\* options, status listener, reachability callbacks and pending connects of
\* every other endpoint B unchanged, and makes no collaborator call for B.
C18_OtherEndpointsUntouched ==
    [][/\ \A b \in Urls \ {lastOp'.url} :
             /\ SelectSeq(urls', LAMBDA u : u = b) = SelectSeq(urls, LAMBDA u : u = b)
             /\ options'[b] = options[b]
             /\ statusChangeListeners'[b] = statusChangeListeners[b]
             /\ subs'[b] = subs[b]
             /\ autoPending'[b] = autoPending[b]
             /\ online'[b] = online[b]
             /\ \A t \in 1..Len(tasks) : tasks[t].url = b => tasks'[t] = tasks[t]
       /\ \A i \in 1..Len(lastOp'.calls) : lastOp'.calls[i].url = lastOp'.url
       /\ \A t \in Len(tasks) + 1..Len(tasks') : tasks'[t].url = lastOp'.url]_vars

C18_Witness ==
    /\ lastOp.op \in {"disconnect", "removeUrl"}
    /\ \E b \in Urls \ {lastOp.url} :
          /\ Tracked(b)
          /\ subs[b] = 1
          /\ options[b].tag = "x"
          /\ statusChangeListeners[b] = "cb1"

\* C19: once removeUrl(E) has been called and until connect(E) is called
\* again, no step makes a syncable.connect call for E.
C19_NoConnectAfterRemove ==
    [][\A url \in Urls :
          tornDown'[url] = "removeUrl"
            => Count(lastOp'.calls, "syncable.connect", url) = 0]_vars

\* C20: while disconnect(E) or removeUrl(E) is the application's last word on
\* E (no connect(E) was called since), E is not in the tracked set and no
\* reachability callback is registered for E, also when a connect(E) that
\* was pending at the teardown resolves afterwards.
C20_TeardownWinsOverPendingConnect ==
    [][\A url \in Urls :
          tornDown'[url] # "none"
            => /\ ~Has(urls', url)
               /\ tornDown[url] # "none" => subs'[url] = subs[url]]_vars

====
